---- MODULE Spec2Model ----
(***************************************************************************)
(* A model of the storage core of the wander file browser                  *)
(* (src/src/filesystem.rs) and of the callers in src/src/app.rs that       *)
(* guard it.  The file system is a map from canonical paths to nodes; a    *)
(* path is a sequence of names and a name is a sequence of characters, so  *)
(* that the name arithmetic of the code (extensions, suffixes, `..`) is    *)
(* computed and not assumed.                                               *)
(***************************************************************************)
EXTENDS Integers, Sequences, FiniteSets, TLC

VARIABLES
    fs,     \* the file system: canonical path -> node
    pc,     \* position of the operation in flight ("idle" when none,
            \* "dead" once the process has died)
    op,     \* the locals of the operation in flight, or of the last one
    res,    \* what the last finished operation returned
    pre,    \* (history) the file system when the last operation began
    log,    \* (history) the finished operations, oldest first
    load_req,   \* the request channel: the paths sent and not yet received
    load_res,   \* the result channel: the results sent and not yet received
    worker,     \* the request the worker thread is serving, or 0
    tasks,      \* the requests that search threads are serving
    issued,     \* (history) the requests issued, oldest first
    received,   \* (history) the results update has received, oldest first
    current_path,   \* the directory the window shows
    app_entries,    \* self.entries: the entries the window lists
    selected_entry, \* the index of the selected entry in `entries`, or 0
    is_loading,     \* the flag behind the spinner
    sort_column,    \* "Name", "Size" or "Modified"
    sort_order,     \* "Ascending" or "Descending"
    chosen          \* (history) the path of the entry the user selected

\* The storage and the operation on it.
store == <<fs, pc, op, res, pre, log>>
\* The channels between the interactive thread and the background threads.
channels == <<load_req, load_res, worker, tasks, issued, received>>

\* The fields of ExplorerApp behind the list of entries.
app == <<current_path, app_entries, selected_entry, is_loading,
        sort_column, sort_order, chosen>>

vars == <<store, channels, app>>

----------------------------------------------------------------------------
(* Bounds of the model.                                                    *)

\* operations per run
MaxOps == 2
\* distinct values the random generator can return for a salt or a nonce
NumRand == 1
\* entries of an archive that was not produced by create_zip
MaxEntries == 2
\* failed calls and crashes per run
MaxFaults == 1
\* names in the longest path the operating system accepts
MaxPathLen == 4
\* requests for a listing or a search per run
MaxRequests == 3
\* The calls of a recursive function that the stack of a thread holds.
MaxStack == 2

(* Constants of the program.                                               *)
SaltLen == 16
NonceLen == 12
HeaderLen == 28
TagLen == 16

----------------------------------------------------------------------------
(* Strings are sequences of one-character strings.                         *)

Dot == "."
Slash == "/"
EncSuffix == <<".", "e", "n", "c">>
DecryptedExt == <<"d", "e", "c", "r", "y", "p", "t", "e", "d">>
ZipExt == <<"z", "i", "p">>
ParentName == <<".", ".">>
CurName == <<".">>

EndsWith(s, suf) ==
    /\ Len(s) >= Len(suf)
    /\ SubSeq(s, Len(s) - Len(suf) + 1, Len(s)) = suf

RECURSIVE LastIndexOf(_, _)
LastIndexOf(s, c) ==
    IF s = <<>> THEN 0
    ELSE IF s[Len(s)] = c THEN Len(s)
    ELSE LastIndexOf(SubSeq(s, 1, Len(s) - 1), c)

\* Path::file_stem and Path::extension of a file name: split at the last
\* dot, unless the name is `..` or its only dot is the first character.
HasExtension(name) == name # ParentName /\ LastIndexOf(name, Dot) > 1

FileStem(name) ==
    IF HasExtension(name) THEN SubSeq(name, 1, LastIndexOf(name, Dot) - 1) ELSE name

\* path.extension().unwrap_or_default()
ExtensionOrDefault(name) ==
    IF HasExtension(name) THEN SubSeq(name, LastIndexOf(name, Dot) + 1, Len(name))
    ELSE <<>>

\* Path::with_extension on the final name: the stem, then a dot and the new
\* extension when that is not empty.
WithExtension(name, ext) ==
    FileStem(name) \o (IF ext = <<>> THEN <<>> ELSE <<Dot>> \o ext)

\* Path::new(s).components(): split at the separators; empty pieces and
\* `.` pieces name nothing, a leading separator is the root.
RECURSIVE SplitAt(_, _)
SplitAt(s, c) ==
    IF s = <<>> THEN << <<>> >>
    ELSE LET rest == SplitAt(Tail(s), c)
         IN  IF Head(s) = c THEN << <<>> >> \o rest
             ELSE << <<Head(s)>> \o Head(rest) >> \o Tail(rest)

IsAbsolute(s) == s # <<>> /\ Head(s) = Slash

RECURSIVE KeepPieces(_)
KeepPieces(pieces) ==
    IF pieces = <<>> THEN <<>>
    ELSE IF Head(pieces) = <<>> \/ Head(pieces) = CurName
         THEN KeepPieces(Tail(pieces))
         ELSE <<Head(pieces)>> \o KeepPieces(Tail(pieces))

\* The components after the root that name something: names and `..`.
Components(s) == KeepPieces(SplitAt(s, Slash))

\* The operating system's walk over components from a canonical directory:
\* `..` steps to the parent (the root is its own parent).
RECURSIVE Walk(_, _)
Walk(base, comps) ==
    IF comps = <<>> THEN base
    ELSE LET c == Head(comps)
         IN  IF c = ParentName
             THEN Walk(IF base = <<>> THEN <<>> ELSE SubSeq(base, 1, Len(base) - 1),
                       Tail(comps))
             ELSE Walk(Append(base, c), Tail(comps))

\* Path::join followed by the system's resolution: an absolute argument
\* replaces the base.
Join(base, s) == Walk(IF IsAbsolute(s) THEN <<>> ELSE base, Components(s))

Parent(p) == SubSeq(p, 1, Len(p) - 1)
FileName(p) == p[Len(p)]
IsPrefix(d, p) == Len(d) <= Len(p) /\ SubSeq(p, 1, Len(d)) = d
Inside(d, p) == IsPrefix(d, p)

----------------------------------------------------------------------------
(* File contents.  A plain content is its bytes.  An encrypted content is  *)
(* the layout salt || nonce || ciphertext, the ciphertext being the sealed *)
(* plaintext: it opens only under the key and nonce it was sealed with,    *)
(* and only while no byte of it was changed.  `by` and `alt` are history:  *)
(* the password given to encrypt_file, and whether the file was altered    *)
(* since.  An archive content is the sequence of its entries.              *)

Plain(b) == [t |-> "plain", bytes |-> b]
Empty == Plain(<<>>)

Rand == 1 .. NumRand
Passwords == {"pw1", "pw2"}

\* pbkdf2_hmac::<Sha256>(password, salt, 100_000, key): one key per pair.
DeriveKey(password, salt) == <<password, salt>>

\* Aes256Gcm::encrypt(nonce, data)
AeadEncrypt(key, nonce, data) == [k |-> key, n |-> nonce, pt |-> data, ok |-> TRUE]

\* The ciphertext a file that encrypt_file did not write parses to.
Garbage == [k |-> <<"", 0>>, n |-> 0, pt |-> Empty, ok |-> FALSE]

\* Aes256Gcm::decrypt(nonce, ciphertext) without the tag check.
AeadDecryptUnchecked(key, nonce, ct) == [ok |-> TRUE, pt |-> ct.pt]

\* Aes256Gcm::decrypt(nonce, ciphertext): the plaintext, or a failure when
\* the tag does not verify.
AeadDecrypt(key, nonce, ct) ==
    IF ct.ok /\ ct.k = key /\ ct.n = nonce
    THEN [ok |-> TRUE, pt |-> ct.pt]
    ELSE [ok |-> FALSE, pt |-> Empty]

\* salt || nonce || ciphertext
Layout(salt, nonce, ct, password) ==
    [t |-> "enc", salt |-> salt, nonce |-> nonce, ct |-> ct,
     by |-> password, alt |-> FALSE]

ZipOf(entries, finished) == [t |-> "zip", entries |-> entries, finished |-> finished]

\* The bytes of a file: an archive has a local header (30) and a central
\* header (46) per entry, each with the name, and an end record (22).
RECURSIVE FileLen(_)
RECURSIVE SumLen(_)
SumLen(entries) ==
    IF entries = <<>> THEN 0
    ELSE 76 + 2 * Len(Head(entries).name) + FileLen(Head(entries).data)
         + SumLen(Tail(entries))

FileLen(c) ==
    IF c.t = "plain" THEN Len(c.bytes)
    ELSE IF c.t = "enc" THEN SaltLen + NonceLen + FileLen(c.ct.pt) + TagLen
    ELSE 22 + SumLen(c.entries)

\* data[..16], data[16..28], data[28..]
SaltOf(c) == IF c.t = "enc" THEN c.salt ELSE 0
NonceOf(c) == IF c.t = "enc" THEN c.nonce ELSE 0
CiphertextOf(c) == IF c.t = "enc" THEN c.ct ELSE Garbage

----------------------------------------------------------------------------
(* The file system (std::fs).                                              *)

Root == <<>>
DirNode(r) == [kind |-> "dir", data |-> Empty, readable |-> r, modified |-> 0]
FileNode(c, r) == [kind |-> "file", data |-> c, readable |-> r, modified |-> 0]
\* A symbolic link to the directory `target`.
SymlinkNode(target) ==
    [kind |-> "symlink", data |-> [t |-> "link", target |-> target],
     readable |-> TRUE, modified |-> 0]

Exists(f, p) == p \in DOMAIN f
IsDir(f, p) == Exists(f, p) /\ f[p].kind = "dir"
IsFile(f, p) == Exists(f, p) /\ f[p].kind = "file"
HasFile(f, p, c) == IsFile(f, p) /\ f[p].data = c

Put(f, p, node) == [q \in DOMAIN f \cup {p} |-> IF q = p THEN node ELSE f[q]]
Drop(f, ps) == [q \in DOMAIN f \ ps |-> f[q]]
Under(f, d) == {q \in DOMAIN f : IsPrefix(d, q)}

\* fs::File::create can open p: its parent is a directory and p is none.
CanCreate(f, p) == p # Root /\ IsDir(f, Parent(p)) /\ ~IsDir(f, p)
\* fs::read can read p.
CanRead(f, p) == IsFile(f, p) /\ f[p].readable

\* fs::create_dir_all(p): every missing directory on the way to p.
RECURSIVE CreateDirAll(_, _)
CreateDirAll(f, p) ==
    IF IsDir(f, p) THEN [ok |-> TRUE, fs |-> f]
    ELSE IF Exists(f, p) \/ p = Root THEN [ok |-> FALSE, fs |-> f]
    ELSE LET up == CreateDirAll(f, Parent(p))
         IN  IF up.ok THEN [ok |-> TRUE, fs |-> Put(up.fs, p, DirNode(TRUE))]
             ELSE up

\* fs::rename(from, to) of the build's platform (Windows): a file replaces
\* an existing file; nothing replaces a directory, and a directory replaces
\* nothing.
FsRename(f, from, to) ==
    IF ~Exists(f, from) \/ from = Root \/ to = Root THEN [ok |-> FALSE, fs |-> f]
    ELSE IF from = to THEN [ok |-> TRUE, fs |-> f]
    ELSE IF ~IsDir(f, Parent(to)) \/ IsPrefix(from, to) THEN [ok |-> FALSE, fs |-> f]
    ELSE IF Exists(f, to) /\ (IsDir(f, to) \/ IsDir(f, from)) THEN [ok |-> FALSE, fs |-> f]
    ELSE LET moved == Under(f, from)
             target(q) == to \o SubSeq(q, Len(from) + 1, Len(q))
             kept == (DOMAIN f \ moved) \ {to}
         IN  [ok |-> TRUE,
              fs |-> [q \in kept \cup {target(m) : m \in moved} |->
                        IF q \in kept THEN f[q]
                        ELSE f[CHOOSE m \in moved : target(m) = q]]]

----------------------------------------------------------------------------
(* Operations.  An operation that touches the file system in several calls *)
(* is one action per call; `op` holds its locals between them.             *)

NoOp ==
    [kind |-> "none", path |-> Root, pw |-> "", name |-> <<>>, dest |-> Root,
     data |-> Empty, output |-> Empty, i |-> 0, fault |-> FALSE, skipped |-> {},
     stack |-> <<>>, visited |-> {}]

Call(kind, path) == [NoOp EXCEPT !.kind = kind, !.path = path]

\* The operation returns r to its caller.
Returns(o, r) ==
    /\ op' = o
    /\ pc' = "idle"
    /\ res' = r
    /\ log' = Append(log, [op |-> o, res |-> r])

\* The operation was called by itself: no request is made, the window stays.
Return(o, r) ==
    /\ Returns(o, r)
    /\ UNCHANGED <<channels, app>>

\* No operation has run yet.
NothingRun ==
    /\ pc = "idle"
    /\ op = NoOp
    /\ res = "none"
    /\ pre = fs
    /\ log = <<>>

\* No request was issued yet.
NothingSent ==
    /\ load_req = <<>>
    /\ load_res = <<>>
    /\ worker = 0
    /\ tasks = {}
    /\ issued = <<>>
    /\ received = <<>>

\* No window yet.
NothingShown ==
    /\ current_path = Root
    /\ app_entries = <<>>
    /\ selected_entry = 0
    /\ is_loading = FALSE
    /\ sort_column = "Name"
    /\ sort_order = "Ascending"
    /\ chosen = Root

CanStart == pc = "idle" /\ Len(log) < MaxOps

\* fs::write(path, bytes), first half: File::create opens and truncates.
WriteCreate(next) ==
    IF CanCreate(fs, op.dest)
    THEN /\ fs' = Put(fs, op.dest, FileNode(Empty, TRUE))
         /\ pc' = next
         /\ UNCHANGED <<op, res, pre, log, channels, app>>
    ELSE /\ Return(op, "Io")
         /\ UNCHANGED <<fs, pre>>

\* fs::write(path, bytes), second half: write_all.
WriteAll(next) ==
    /\ fs' = Put(fs, op.dest, FileNode(op.output, TRUE))
    /\ pc' = next
    /\ UNCHANGED <<op, res, pre, log, channels, app>>

\* fs::remove_file(path), then Ok(()).
RemoveSource ==
    IF IsFile(fs, op.path)
    THEN /\ fs' = Drop(fs, {op.path})
         /\ Return(op, "Ok")
         /\ UNCHANGED pre
    ELSE /\ Return(op, "Io")
         /\ UNCHANGED <<fs, pre>>

(* encrypt_file *)

\* path.with_extension(format!("{}.enc", path.extension().unwrap_or_default()))
EncryptedPath(path) ==
    Append(Parent(path),
           WithExtension(FileName(path), ExtensionOrDefault(FileName(path)) \o EncSuffix))

EncryptBegin(path, password, salt, nonce) ==
    /\ CanStart
    /\ pre' = fs
    /\ IF CanRead(fs, path)
       THEN /\ op' = [Call("encrypt", path) EXCEPT
                        !.pw = password,
                        !.data = fs[path].data,
                        !.output = Layout(salt, nonce,
                                          AeadEncrypt(DeriveKey(password, salt), nonce,
                                                      fs[path].data),
                                          password),
                        !.dest = EncryptedPath(path)]
            /\ pc' = "enc_create"
            /\ UNCHANGED <<fs, res, log, channels, app>>
       ELSE /\ Return([Call("encrypt", path) EXCEPT !.pw = password], "Io")
            /\ UNCHANGED fs

EncryptCreate == pc = "enc_create" /\ WriteCreate("enc_write")

EncryptWrite == pc = "enc_write" /\ WriteAll("enc_remove")

EncryptRemoveEarly == pc \in {"enc_create", "enc_remove"} /\ RemoveSource

EncryptRemove == pc = "enc_remove" /\ RemoveSource

(* decrypt_file *)

\* The name without a trailing `.enc` (set_file_name), or else with the
\* extension replaced by `decrypted` (set_extension).
DecryptedPath(path) ==
    LET name == FileName(path)
    IN  IF EndsWith(name, EncSuffix)
        THEN Join(Parent(path), SubSeq(name, 1, Len(name) - Len(EncSuffix)))
        ELSE Append(Parent(path), WithExtension(name, DecryptedExt))

\* decrypt_file without the test of the length.
DecryptBeginUnchecked(path, password) ==
    /\ CanStart
    /\ pre' = fs
    /\ LET call == [Call("decrypt", path) EXCEPT !.pw = password]
       IN  IF ~CanRead(fs, path)
           THEN Return(call, "Io") /\ UNCHANGED fs
           ELSE LET data == fs[path].data
                    opened == AeadDecrypt(DeriveKey(password, SaltOf(data)),
                                          NonceOf(data), CiphertextOf(data))
                    read == [call EXCEPT !.data = data]
                IN  IF ~opened.ok
                    THEN Return(read, "AuthenticationFailed") /\ UNCHANGED fs
                    ELSE /\ op' = [read EXCEPT !.output = opened.pt,
                                               !.dest = DecryptedPath(path)]
                         /\ pc' = "dec_create"
                         /\ UNCHANGED <<fs, res, log, channels, app>>

DecryptBegin(path, password) ==
    /\ CanStart
    /\ pre' = fs
    /\ LET call == [Call("decrypt", path) EXCEPT !.pw = password]
       IN  IF ~CanRead(fs, path)
           THEN Return(call, "Io") /\ UNCHANGED fs
           ELSE LET data == fs[path].data
                    opened == AeadDecrypt(DeriveKey(password, SaltOf(data)),
                                          NonceOf(data), CiphertextOf(data))
                    read == [call EXCEPT !.data = data]
                IN  IF FileLen(data) < HeaderLen
                    THEN Return(read, "InvalidFormat") /\ UNCHANGED fs
                    ELSE IF ~opened.ok
                    THEN Return(read, "AuthenticationFailed") /\ UNCHANGED fs
                    ELSE /\ op' = [read EXCEPT !.output = opened.pt,
                                               !.dest = DecryptedPath(path)]
                         /\ pc' = "dec_create"
                         /\ UNCHANGED <<fs, res, log, channels, app>>

DecryptCreate == pc = "dec_create" /\ WriteCreate("dec_write")

DecryptWrite == pc = "dec_write" /\ WriteAll("dec_remove")

DecryptRemove == pc = "dec_remove" /\ RemoveSource

Faults == Cardinality({i \in DOMAIN log : log[i].op.fault})

InFlight == pc \notin {"idle", "dead"}

\* A call of the operation in flight fails and `?` returns the error: the
\* file system stays as the calls so far left it.
IoError ==
    /\ InFlight
    /\ Faults < MaxFaults
    /\ Return([op EXCEPT !.fault = TRUE], "Io")
    /\ UNCHANGED <<fs, pre>>

\* The process dies in the middle of the operation and runs nothing more.
Crash ==
    /\ InFlight
    /\ Faults < MaxFaults
    /\ op' = [op EXCEPT !.fault = TRUE]
    /\ pc' = "dead"
    /\ res' = "crashed"
    /\ log' = Append(log, [op |-> op', res |-> "crashed"])
    /\ UNCHANGED <<channels, app>>
    /\ UNCHANGED <<fs, pre>>

\* Someone alters the salt, the nonce or the ciphertext of an encrypted file;
\* 0 is a value the random generator does not return.
Tamper(path, part) ==
    /\ CanStart
    /\ IsFile(fs, path)
    /\ fs[path].data.t = "enc"
    /\ ~fs[path].data.alt
    /\ LET c == fs[path].data
           d == CASE part = "salt" -> [c EXCEPT !.salt = 0, !.alt = TRUE]
                  [] part = "nonce" -> [c EXCEPT !.nonce = 0, !.alt = TRUE]
                  [] OTHER -> [c EXCEPT !.ct.ok = FALSE, !.alt = TRUE]
       IN  fs' = Put(fs, path, FileNode(d, TRUE))
    /\ pre' = fs
    /\ Return(Call("tamper", path), "Ok")

(* rename_entry *)

RenameEntry(old_path, new_name) ==
    /\ CanStart
    /\ pre' = fs
    /\ LET call == [Call("rename", old_path) EXCEPT !.name = new_name]
       IN  IF old_path = Root
           THEN Return(call, "NoParent") /\ UNCHANGED fs
           ELSE LET new_path == Join(Parent(old_path), new_name)
                    moved == FsRename(fs, old_path, new_path)
                IN  /\ fs' = moved.fs
                    /\ Return([call EXCEPT !.dest = new_path],
                              IF moved.ok THEN "Ok" ELSE "Io")

(* create_directory, create_file, delete_entry *)

CreateDirectory(parent, name) ==
    /\ CanStart
    /\ pre' = fs
    /\ LET path == Join(parent, name)
           call == [Call("create_directory", parent) EXCEPT !.name = name, !.dest = path]
       IN  IF Exists(fs, path)
           THEN Return(call, "AlreadyExists") /\ UNCHANGED fs
           ELSE IF path # Root /\ IsDir(fs, Parent(path))
           THEN fs' = Put(fs, path, DirNode(TRUE)) /\ Return(call, "Ok")
           ELSE Return(call, "Io") /\ UNCHANGED fs

\* create_file without the test of path.exists(): File::create truncates.
CreateFileUnguarded(parent, name) ==
    /\ CanStart
    /\ pre' = fs
    /\ LET path == Join(parent, name)
           call == [Call("create_file", parent) EXCEPT !.name = name, !.dest = path]
       IN  IF CanCreate(fs, path)
           THEN fs' = Put(fs, path, FileNode(Empty, TRUE)) /\ Return(call, "Ok")
           ELSE Return(call, "Io") /\ UNCHANGED fs

CreateFile(parent, name) ==
    /\ CanStart
    /\ pre' = fs
    /\ LET path == Join(parent, name)
           call == [Call("create_file", parent) EXCEPT !.name = name, !.dest = path]
       IN  IF Exists(fs, path)
           THEN Return(call, "AlreadyExists") /\ UNCHANGED fs
           ELSE IF CanCreate(fs, path)
           THEN fs' = Put(fs, path, FileNode(Empty, TRUE)) /\ Return(call, "Ok")
           ELSE Return(call, "Io") /\ UNCHANGED fs

\* The body of delete_entry.
RemoveEntry(path) ==
    /\ CanStart
    /\ pre' = fs
    /\ IF IsDir(fs, path) /\ path # Root
       THEN fs' = Drop(fs, Under(fs, path)) /\ Returns(Call("delete", path), "Ok")
       ELSE IF IsFile(fs, path)
       THEN fs' = Drop(fs, {path}) /\ Returns(Call("delete", path), "Ok")
       ELSE Returns(Call("delete", path), "Io") /\ UNCHANGED fs

DeleteEntry(path) ==
    /\ RemoveEntry(path)
    /\ UNCHANGED <<channels, app>>

(* create_zip *)

Children(f, d) == {q \in DOMAIN f : Len(q) = Len(d) + 1 /\ IsPrefix(d, q)}

RECURSIVE SeqOfSet(_)
SeqOfSet(S) ==
    IF S = {} THEN <<>>
    ELSE LET x == CHOOSE y \in S : TRUE IN <<x>> \o SeqOfSet(S \ {x})

\* WalkDir::new(root).into_iter().filter_map(|e| e.ok()): the root, then
\* what is below it, a directory before its contents.  A directory that
\* cannot be read yields an error in place of its contents and a root that
\* does not exist yields only an error; the filter drops the errors.
RECURSIVE WalkDir(_, _)
RECURSIVE WalkAll(_, _)
WalkAll(f, ps) ==
    IF ps = <<>> THEN <<>> ELSE WalkDir(f, Head(ps)) \o WalkAll(f, Tail(ps))

WalkDir(f, p) ==
    IF ~Exists(f, p) THEN <<>>
    ELSE <<p>> \o (IF IsDir(f, p) /\ f[p].readable
                   THEN WalkAll(f, SeqOfSet(Children(f, p)))
                   ELSE <<>>)

\* path.strip_prefix(walk_root).to_string_lossy().replace("\\", "/")
RECURSIVE SlashJoin(_)
SlashJoin(names) ==
    IF names = <<>> THEN <<>>
    ELSE IF Len(names) = 1 THEN Head(names)
    ELSE Head(names) \o <<Slash>> \o SlashJoin(Tail(names))

RelName(walk_root, p) == SlashJoin(SubSeq(p, Len(walk_root) + 1, Len(p)))

ZipEntry(name, data) == [name |-> name, data |-> data]

\* The loop over the walk: start_file and the file's bytes, or
\* add_directory (which stores the name with a trailing slash).
RECURSIVE PackWalk(_, _, _, _)
PackWalk(f, walk_root, walk, entries) ==
    IF walk = <<>> THEN [ok |-> TRUE, entries |-> entries]
    ELSE LET p == Head(walk)
             name == RelName(walk_root, p)
         IN  IF IsFile(f, p)
             THEN IF CanRead(f, p)
                  THEN PackWalk(f, walk_root, Tail(walk),
                                Append(entries, ZipEntry(name, f[p].data)))
                  ELSE [ok |-> FALSE, entries |-> entries]
             ELSE IF name # <<>>
             THEN PackWalk(f, walk_root, Tail(walk),
                           Append(entries, ZipEntry(name \o <<Slash>>, Empty)))
             ELSE PackWalk(f, walk_root, Tail(walk), entries)

\* create_zip(src_path, dest_path): what it returns and the file system it
\* leaves.
ZipRun(f, src_path, dest_path) ==
    IF ~CanCreate(f, dest_path) THEN [res |-> "Io", fs |-> f]
    ELSE LET g == Put(f, dest_path, FileNode(ZipOf(<<>>, FALSE), TRUE))
             walk_root == IF IsDir(g, src_path) THEN src_path ELSE Parent(src_path)
             packed == IF IsFile(g, src_path)
                       THEN IF CanRead(g, src_path)
                            THEN [ok |-> TRUE,
                                  entries |-> <<ZipEntry(FileName(src_path),
                                                         g[src_path].data)>>]
                            ELSE [ok |-> FALSE, entries |-> <<>>]
                       ELSE PackWalk(g, walk_root, WalkDir(g, src_path), <<>>)
         IN  [res |-> IF packed.ok THEN "Ok" ELSE "Io",
              fs |-> Put(f, dest_path, FileNode(ZipOf(packed.entries, packed.ok), TRUE))]

CreateZip(src_path, dest_path) ==
    /\ CanStart
    /\ pre' = fs
    /\ LET run == ZipRun(fs, src_path, dest_path)
       IN  /\ fs' = run.fs
           /\ Return([Call("create_zip", src_path) EXCEPT !.dest = dest_path], run.res)

\* compress_selected: entry.path.with_extension("zip"), refused when it
\* exists, else create_zip.
CompressSelected(path) ==
    /\ CanStart
    /\ path # Root
    /\ Exists(fs, path)
    /\ pre' = fs
    /\ LET dest == Append(Parent(path), WithExtension(FileName(path), ZipExt))
           call == [Call("compress", path) EXCEPT !.dest = dest]
       IN  IF Exists(fs, dest)
           THEN Return(call, "AlreadyExists") /\ UNCHANGED fs
           ELSE LET run == ZipRun(fs, path, dest)
                IN  fs' = run.fs /\ Return(call, run.res)

(* extract_zip *)

\* ZipFile::enclosed_name without its checks.
EnclosedNameUnchecked(name) == [some |-> TRUE, comps |-> Components(name)]

\* The depth below the start after the components, or -1 once a `..` would
\* step above it.
RECURSIVE Depth(_, _)
Depth(comps, d) ==
    IF comps = <<>> THEN d
    ELSE IF Head(comps) = ParentName
         THEN IF d = 0 THEN -1 ELSE Depth(Tail(comps), d - 1)
         ELSE Depth(Tail(comps), d + 1)

\* ZipFile::enclosed_name: the entry's path, unless it is absolute or one
\* of its `..` steps above where it starts.
EnclosedName(name) ==
    IF IsAbsolute(name) \/ Depth(Components(name), 0) < 0
    THEN [some |-> FALSE, comps |-> <<>>]
    ELSE [some |-> TRUE, comps |-> Components(name)]

ExtractBegin(zip_path, dest_dir) ==
    /\ CanStart
    /\ pre' = fs
    /\ UNCHANGED fs
    /\ LET call == [Call("extract", zip_path) EXCEPT !.dest = dest_dir]
       IN  IF ~CanRead(fs, zip_path) THEN Return(call, "Io")
           ELSE IF fs[zip_path].data.t # "zip" \/ ~fs[zip_path].data.finished
           THEN Return(call, "InvalidFormat")
           ELSE /\ op' = [call EXCEPT !.data = fs[zip_path].data, !.i = 1]
                /\ pc' = "extract"
                /\ UNCHANGED <<res, log, channels, app>>

\* One turn of the loop over the entries.
ExtractEntry ==
    /\ pc = "extract"
    /\ op.i <= Len(op.data.entries)
    /\ UNCHANGED pre
    /\ LET file == op.data.entries[op.i]
           enclosed == EnclosedName(file.name)
           outcomps == (IF IsAbsolute(file.name) THEN <<>> ELSE op.dest) \o enclosed.comps
           outpath == Walk(Root, outcomps)
           parent == Walk(Root, SubSeq(outcomps, 1, Len(outcomps) - 1))
           step(f) == /\ fs' = f
                      /\ op' = [op EXCEPT !.i = op.i + 1]
                      /\ UNCHANGED <<pc, res, log, channels, app>>
           fail(f) == fs' = f /\ Return(op, "Io")
       IN  IF ~enclosed.some THEN step(fs)
           ELSE IF EndsWith(file.name, <<Slash>>)
           THEN LET made == CreateDirAll(fs, outpath)
                IN  IF made.ok THEN step(made.fs) ELSE fail(fs)
           ELSE LET made == IF outcomps # <<>> /\ ~Exists(fs, parent)
                            THEN CreateDirAll(fs, parent)
                            ELSE [ok |-> TRUE, fs |-> fs]
                IN  IF ~made.ok THEN fail(fs)
                    ELSE IF ~CanCreate(made.fs, outpath) THEN fail(made.fs)
                    ELSE step(Put(made.fs, outpath, FileNode(file.data, TRUE)))

ExtractDone ==
    /\ pc = "extract"
    /\ op.i > Len(op.data.entries)
    /\ Return(op, "Ok")
    /\ UNCHANGED <<fs, pre>>

----------------------------------------------------------------------------
(* The vault: one directory with one file, plain or encrypted, and the     *)
(* operations on files.                                                    *)

N_a == <<"a">>
N_a_t == <<"a", ".", "t">>
N_a_decrypted == <<"a", ".">> \o DecryptedExt
N_enc == EncSuffix

VaultNames == {N_a, N_a_t, N_a_decrypted, N_enc}
\* One byte less than the header of an encrypted file, and as many.
VaultContents ==
    {Plain([i \in 1 .. HeaderLen - 1 |-> 0]), Plain([i \in 1 .. HeaderLen |-> 0])}

Files(f) == {p \in DOMAIN f : IsFile(f, p)}

\* What encrypt_file left of a file in an earlier run.
Sealed(c, password) == Layout(1, 1, AeadEncrypt(DeriveKey(password, 1), 1, c), password)

InitVault ==
    /\ \E n \in VaultNames, c \in VaultContents :
          \/ fs = (Root :> DirNode(TRUE)) @@ (<<n>> :> FileNode(c, TRUE))
          \/ fs = (Root :> DirNode(TRUE))
                  @@ (EncryptedPath(<<n>>) :> FileNode(Sealed(c, "pw1"), TRUE))
    /\ NothingRun
    /\ NothingSent
    /\ NothingShown

NextVault ==
    \/ \E p \in Files(fs), pw \in Passwords, s \in Rand, n \in Rand :
          EncryptBegin(p, pw, s, n)
    \/ EncryptCreate
    \/ EncryptWrite
    \/ EncryptRemove
    \/ \E p \in Files(fs), pw \in Passwords : DecryptBegin(p, pw)
    \/ DecryptCreate
    \/ DecryptWrite
    \/ DecryptRemove
    \/ IoError
    \/ Crash
    \/ \E p \in Files(fs), part \in {"salt", "nonce", "ct"} : Tamper(p, part)
    \/ \E p \in Files(fs), n \in VaultNames : RenameEntry(p, n)

SpecVault == InitVault /\ [][NextVault]_vars

----------------------------------------------------------------------------
(* Properties of the vault.                                                *)

Last == log[Len(log)]
Before == log[Len(log) - 1]

\* c is what encrypt_file writes for the plaintext `data` under `password`,
\* whole and unaltered.
IsSealOf(c, data, password) ==
    c.t = "enc" /\ ~c.alt /\ c.ct.ok /\ c.ct.pt = data /\ c.by = password

\* C1: in every state of encrypt_file, also after a failed call or a crash,
\* the plaintext file is still there with the content it had, unless the
\* whole encrypted file exists.
C1_PlaintextKeptUntilEncrypted ==
    (op.kind = "encrypt" /\ CanRead(pre, op.path)) =>
        \/ HasFile(fs, op.path, pre[op.path].data)
        \/ \E p \in DOMAIN fs :
              IsFile(fs, p) /\ IsSealOf(fs[p].data, pre[op.path].data, op.pw)

\* C1 (witness): encrypt_file has returned Ok, the plaintext file is gone
\* and the encrypted file is there.
C1_Witness ==
    /\ pc = "idle" /\ op.kind = "encrypt" /\ res = "Ok"
    /\ ~Exists(fs, op.path)
    /\ IsFile(fs, op.dest) /\ IsSealOf(fs[op.dest].data, op.data, op.pw)

\* C2: in every state during and after decrypt_file, the encrypted file is
\* there with the content it had, or a file holds the whole plaintext.
C2_EncryptedKeptUntilDecrypted ==
    (op.kind = "decrypt" /\ CanRead(pre, op.path)) =>
        LET c == pre[op.path].data
        IN  \/ HasFile(fs, op.path, c)
            \/ c.t = "enc" /\ \E p \in DOMAIN fs : HasFile(fs, p, c.ct.pt)

\* C3: encrypt_file on a file named N with content B, then decrypt_file
\* with the same password on the file it wrote, succeeds and leaves a file
\* named N with content B and no encrypted file.
C3_RoundTripRestoresOriginal ==
    (/\ pc = "idle" /\ Len(log) >= 2
     /\ Before.op.kind = "encrypt" /\ Before.res = "Ok"
     /\ Last.op.kind = "decrypt" /\ ~Last.op.fault
     /\ Last.op.path = Before.op.dest /\ Last.op.pw = Before.op.pw) =>
        /\ Last.res = "Ok"
        /\ HasFile(fs, Before.op.path, Before.op.data)
        /\ ~Exists(fs, Before.op.dest)

\* C4: decrypt_file with another password than the one the file was
\* encrypted with, or on an encrypted file that was altered, returns the
\* authentication failure and leaves the file system as it was.
C4_WrongPasswordOrAlteredRejected ==
    (/\ pc = "idle" /\ Len(log) >= 1
     /\ Last.op.kind = "decrypt" /\ CanRead(pre, Last.op.path)
     /\ pre[Last.op.path].data.t = "enc"
     /\ (pre[Last.op.path].data.by # Last.op.pw \/ pre[Last.op.path].data.alt)) =>
        /\ Last.res = "AuthenticationFailed"
        /\ fs = pre

\* C4 (witness): decrypt_file has returned for an unaltered encrypted file
\* and another password than the one it was encrypted with.
C4_Witness ==
    /\ pc = "idle" /\ Len(log) >= 1
    /\ Last.op.kind = "decrypt" /\ CanRead(pre, Last.op.path)
    /\ pre[Last.op.path].data.t = "enc"
    /\ ~pre[Last.op.path].data.alt
    /\ pre[Last.op.path].data.by # Last.op.pw
    /\ Last.res = "AuthenticationFailed"

\* C17: decrypt_file returns the invalid-format error exactly when the file
\* it read has fewer than 28 bytes, and then leaves the file system as it
\* was.
C17_InvalidFormatIffShort ==
    (/\ pc = "idle" /\ Len(log) >= 1
     /\ Last.op.kind = "decrypt" /\ ~Last.op.fault
     /\ CanRead(pre, Last.op.path)) =>
        /\ (Last.res = "InvalidFormat") <=> (FileLen(pre[Last.op.path].data) < 28)
        /\ Last.res = "InvalidFormat" => fs = pre

\* C17 (witness): decrypt_file has returned the invalid-format error for a
\* file of 27 bytes.
C17_Witness ==
    /\ pc = "idle" /\ Len(log) >= 1
    /\ Last.op.kind = "decrypt"
    /\ CanRead(pre, Last.op.path)
    /\ FileLen(pre[Last.op.path].data) = 27
    /\ Last.res = "InvalidFormat"
    /\ fs = pre

\* C18: encrypt_file writes its output to the file whose name is the whole
\* name of the input followed by `.enc`, in the same directory.
C18_EncryptedNameAppendsEnc ==
    (/\ pc = "idle" /\ op.kind = "encrypt" /\ res = "Ok") =>
        LET named == Append(Parent(op.path), FileName(op.path) \o EncSuffix)
        IN  /\ op.dest = named
            /\ IsFile(fs, named) /\ IsSealOf(fs[named].data, op.data, op.pw)

\* C19: a decrypt_file that returns Ok has written the plaintext to the
\* file named as the input without its trailing `.enc`, or else as the
\* whole name of the input followed by `.decrypted`; that is another path
\* than the input's.
C19_DecryptedName ==
    (/\ pc = "idle" /\ op.kind = "decrypt" /\ res = "Ok") =>
        LET name == FileName(op.path)
            named == IF EndsWith(name, EncSuffix)
                     THEN SubSeq(name, 1, Len(name) - Len(EncSuffix))
                     ELSE name \o <<Dot>> \o DecryptedExt
        IN  /\ op.dest = Append(Parent(op.path), named)
            /\ op.dest # op.path
            /\ HasFile(fs, op.dest, op.output)

\* C25: an encrypt_file or decrypt_file that returns Ok has left the
\* content of a file that was at its output path before as it was.
C25_ExistingOutputKept ==
    (/\ pc = "idle" /\ op.kind \in {"encrypt", "decrypt"} /\ res = "Ok"
     /\ IsFile(pre, op.dest) /\ op.dest # op.path) =>
        HasFile(fs, op.dest, pre[op.dest].data)

----------------------------------------------------------------------------
(* The archive engine: a source tree `s`, a destination directory `d`, and *)
(* the archive `s.zip`, which create_zip writes or which came from         *)
(* elsewhere.                                                              *)

N_s == <<"s">>
N_d == <<"d">>
N_b == <<"b">>
N_e == <<"e">>
N_zip == <<"s", ".">> \o ZipExt

SrcDir == <<N_s>>
DestDir == <<N_d>>
ArchivePath == <<N_zip>>

Bytes1 == Plain(<<1>>)
Bytes2 == Plain(<<2>>)

\* What can stand at a place of the source tree.
Leaves == {FileNode(Bytes1, TRUE), FileNode(Bytes2, TRUE), FileNode(Bytes1, FALSE)}
Dirs == {DirNode(TRUE), DirNode(FALSE)}

\* The trees with the places a, b, a/a, a/b.
Trees ==
    LET top == {<<N_a>>, <<N_b>>}
        low == {<<N_a, N_a>>, <<N_a, N_b>>}
    IN  {t \in UNION {[P -> Leaves \cup Dirs] : P \in SUBSET (top \cup low)} :
            /\ \A q \in DOMAIN t \cap low : <<N_a>> \in DOMAIN t /\ t[<<N_a>>].kind = "dir"
            /\ <<N_b>> \in DOMAIN t => t[<<N_b>>] # DirNode(FALSE)}

\* The names an archive from elsewhere may carry.
ForeignNames ==
    { <<".", ".", "/", "e">>,                 \* ../e
      <<"/", "e">>,                           \* /e
      <<"a", "/", ".", ".", "/", ".", ".", "/", "e">>,   \* a/../../e
      <<"a", "/", ".", ".", "/", "b">>,       \* a/../b
      <<"a", "/">>,                           \* a/
      <<"a", "/", "b">>,                      \* a/b
      <<"b">> }

ForeignArchives ==
    UNION {[1 .. n -> {ZipEntry(nm, IF EndsWith(nm, <<Slash>>) THEN Empty ELSE Bytes1) :
                         nm \in ForeignNames}] : n \in 1 .. MaxEntries}

Base == (Root :> DirNode(TRUE)) @@ (DestDir :> DirNode(TRUE))

Plant(f, root, t) ==
    [q \in DOMAIN f \cup {root} \cup {root \o r : r \in DOMAIN t} |->
        IF q \in DOMAIN f THEN f[q]
        ELSE IF q = root THEN DirNode(TRUE)
        ELSE t[SubSeq(q, Len(root) + 1, Len(q))]]

InitArchive ==
    /\ \/ \E t \in Trees : fs = Plant(Base, SrcDir, t)
       \/ \E z \in ForeignArchives :
             fs = Put(Base, ArchivePath, FileNode(ZipOf(z, TRUE), TRUE))
    /\ NothingRun
    /\ NothingSent
    /\ NothingShown

NextArchive ==
    \/ \E src \in {SrcDir, SrcDir \o <<N_a>>} : CreateZip(src, ArchivePath)
    \/ \E p \in {SrcDir, ArchivePath} : CompressSelected(p)
    \/ ExtractBegin(ArchivePath, DestDir)
    \/ ExtractEntry
    \/ ExtractDone
    \/ IoError
    \/ Crash

SpecArchive == InitArchive /\ [][NextArchive]_vars

----------------------------------------------------------------------------
(* Properties of the archive engine.                                       *)

\* The entry name, resolved against dest, names a place outside dest.
LandsOutside(dest, name) == ~Inside(dest, Join(dest, name))

HasOutsideEntry(zip, dest) ==
    \E i \in DOMAIN zip.entries : LandsOutside(dest, zip.entries[i].name)

\* The tree below root: each relative path with its kind and content.
RelTree(f, root) ==
    [r \in {SubSeq(q, Len(root) + 1, Len(q)) : q \in Under(f, root) \ {root}} |->
        [kind |-> f[root \o r].kind, data |-> f[root \o r].data]]

\* C5: whatever the archive holds, extract_zip creates and changes nothing
\* outside dest_dir, in any state of the extraction.
C5_NothingOutsideDest ==
    op.kind = "extract" =>
        \A p \in DOMAIN fs \cup DOMAIN pre :
            ~Inside(op.dest, p) => (p \in DOMAIN fs /\ p \in DOMAIN pre /\ fs[p] = pre[p])

\* C5 (witness): extract_zip has run to its end over an archive that holds
\* an entry landing outside dest_dir and one it wrote inside.
C5_Witness ==
    /\ pc = "idle" /\ op.kind = "extract" /\ res = "Ok"
    /\ HasOutsideEntry(op.data, op.dest)
    /\ fs # pre

\* C6: extract_zip on an archive with an entry that lands outside dest_dir
\* returns the Security error.
C6_OutsideEntryRejected ==
    (/\ pc = "idle" /\ op.kind = "extract" /\ ~op.fault
     /\ CanRead(pre, op.path)
     /\ pre[op.path].data.t = "zip" /\ pre[op.path].data.finished
     /\ HasOutsideEntry(pre[op.path].data, op.dest)) =>
        res = "Security"

\* create_zip of a directory has returned Ok and extract_zip of its archive
\* into the empty directory has then returned.
PackedThenUnpacked ==
    /\ pc = "idle" /\ Len(log) >= 2
    /\ Before.op.kind \in {"create_zip", "compress"} /\ Before.res = "Ok"
    /\ IsDir(fs, Before.op.path)
    /\ Last.op.kind = "extract" /\ ~Last.op.fault
    /\ Last.op.path = Before.op.dest
    /\ Under(pre, Last.op.dest) = {Last.op.dest}

\* C7: create_zip of a tree, then extract_zip into an empty directory,
\* leaves under it the relative paths of the tree, directories and files,
\* with the files' contents.
C7_ArchiveRoundTrip ==
    PackedThenUnpacked =>
        /\ Last.res = "Ok"
        /\ RelTree(fs, Last.op.dest) = RelTree(fs, Before.op.path)

\* Every directory below root can be read.
AllReadable(f, root) == \A q \in Under(f, root) : f[q].readable

\* The round trip of a tree whose directories and files can all be read.
ReadableRoundTrip ==
    (PackedThenUnpacked /\ AllReadable(fs, Before.op.path)) =>
        /\ Last.res = "Ok"
        /\ RelTree(fs, Last.op.dest) = RelTree(fs, Before.op.path)

\* C8: create_zip with a dest that exists fails with AlreadyExists and
\* leaves the file at dest as it was.
C8_ExistingArchiveKept ==
    (/\ pc = "idle" /\ op.kind = "create_zip"
     /\ Exists(pre, op.path) /\ Exists(pre, op.dest)) =>
        /\ res = "AlreadyExists"
        /\ fs[op.dest] = pre[op.dest]

\* The names create_zip has to store for what is at src: the file itself,
\* or every directory and file below the directory.
NamesToPack(f, src) ==
    IF IsFile(f, src) THEN {FileName(src)}
    ELSE {RelName(src, p) \o (IF IsDir(f, p) THEN <<Slash>> ELSE <<>>) :
             p \in Under(f, src) \ {src}}

\* C20: create_zip returns Ok only when it has stored every entry at and
\* below src, and extract_zip returns Ok only when it has extracted every
\* entry of the archive.
C20_ErrorsNotSwallowed ==
    /\ (/\ pc = "idle" /\ op.kind \in {"create_zip", "compress"} /\ res = "Ok") =>
           LET zip == fs[op.dest].data
           IN  /\ Exists(pre, op.path)
               /\ {zip.entries[i].name : i \in DOMAIN zip.entries} = NamesToPack(pre, op.path)
    /\ (/\ pc = "idle" /\ op.kind = "extract" /\ res = "Ok") =>
           \A i \in DOMAIN op.data.entries :
               LET entry == op.data.entries[i]
                   place == Join(op.dest, entry.name)
               IN  IF EndsWith(entry.name, <<Slash>>)
                   THEN IsDir(fs, place)
                   ELSE IsFile(fs, place)

----------------------------------------------------------------------------
(* Entry operations: a directory `d` with the files x and y and the        *)
(* directory k, some of them there.                                        *)

N_x == <<"x">>
N_y == <<"y">>
N_k == <<"k">>
N_k_x == <<"k", "/", "x">>

EntryNames == {N_x, N_y, N_k, N_k_x, ParentName, <<>>}

WorkDir == <<N_d>>

EntryTrees ==
    {t \in UNION {[P -> {FileNode(Bytes1, TRUE), FileNode(Bytes2, TRUE), DirNode(TRUE)}] :
                    P \in SUBSET {<<N_x>>, <<N_y>>, <<N_k>>, <<N_k, N_x>>}} :
        /\ <<N_x>> \in DOMAIN t => t[<<N_x>>] = FileNode(Bytes1, TRUE)
        /\ <<N_y>> \in DOMAIN t => t[<<N_y>>] = FileNode(Bytes2, TRUE)
        /\ <<N_k>> \in DOMAIN t => t[<<N_k>>] = DirNode(TRUE)
        /\ <<N_k, N_x>> \in DOMAIN t =>
              <<N_k>> \in DOMAIN t /\ t[<<N_k, N_x>>] = FileNode(Bytes2, TRUE)}

InitEntry ==
    /\ \E t \in EntryTrees : fs = Plant((Root :> DirNode(TRUE)), WorkDir, t)
    /\ NothingRun
    /\ NothingSent
    /\ NothingShown

NextEntry ==
    \/ \E n \in EntryNames : CreateDirectory(WorkDir, n)
    \/ \E n \in EntryNames : CreateFile(WorkDir, n)
    \/ \E p \in DOMAIN fs, n \in EntryNames : RenameEntry(p, n)
    \/ \E p \in DOMAIN fs \cup {WorkDir \o <<N_x>>} : DeleteEntry(p)

SpecEntry == InitEntry /\ [][NextEntry]_vars

----------------------------------------------------------------------------
(* Properties of the entry operations.                                     *)

IsCreate(o) == o.kind \in {"create_file", "create_directory"}

\* The place parent/name, for a name that is one component.
ChildPlace(parent, name) == Append(parent, name)

\* C9: create_file and create_directory return the already-exists error
\* whenever something is at parent/name, and then change nothing; a second
\* create_file of the same name after a successful one returns that error.
C9_CreateNeverOverwrites ==
    /\ (/\ pc = "idle" /\ IsCreate(op)
        /\ Exists(pre, Join(op.path, op.name))) =>
            (res = "AlreadyExists" /\ fs = pre)
    /\ (/\ pc = "idle" /\ Len(log) >= 2
        /\ Before.op.kind = "create_file" /\ Before.res = "Ok"
        /\ Last.op.kind = "create_file"
        /\ Last.op.path = Before.op.path /\ Last.op.name = Before.op.name) =>
            Last.res = "AlreadyExists"

\* C9 (witness): create_file has returned Ok and then, called again with
\* the same name, the already-exists error.
C9_Witness ==
    /\ pc = "idle" /\ Len(log) >= 2
    /\ Before.op.kind = "create_file" /\ Before.res = "Ok"
    /\ Last.op.kind = "create_file"
    /\ Last.op.path = Before.op.path /\ Last.op.name = Before.op.name
    /\ Last.res = "AlreadyExists"
    /\ HasFile(fs, ChildPlace(Last.op.path, Last.op.name), Empty)

\* C10: rename_entry to a name that another entry of the same directory
\* has returns an error and leaves both entries as they were.
C10_RenameNeverReplaces ==
    (/\ pc = "idle" /\ op.kind = "rename"
     /\ Exists(pre, op.path) /\ op.path # Root
     /\ op.name # FileName(op.path)
     /\ Exists(pre, ChildPlace(Parent(op.path), op.name))) =>
        (res # "Ok" /\ fs = pre)

\* C11: a rename_entry that returns Ok leaves the entry as a direct child of
\* the parent it had, whatever new_name is (separators and `..` included).
C11_RenameStaysInParent ==
    (/\ pc = "idle" /\ op.kind = "rename" /\ res = "Ok") =>
        /\ Exists(fs, op.dest)
        /\ Len(op.dest) = Len(op.path)
        /\ Parent(op.dest) = Parent(op.path)

----------------------------------------------------------------------------
(* copy_entry: the directory `d` of the entry operations and a second      *)
(* directory `e` to paste into.                                            *)

\* What a call of std::fs hands back to copy_entry: nothing died.
Returned(r) == [ok |-> r.ok, died |-> FALSE, fs |-> r.fs]

\* fs::copy(from, to): the content of a file to a new or an existing file.
\* Copying a file onto itself fails (the build's platform opens the source
\* without sharing it for writing).
FsCopy(f, from, to) ==
    IF CanRead(f, from) /\ from # to /\ CanCreate(f, to) /\ Len(to) <= MaxPathLen
    THEN [ok |-> TRUE, fs |-> Put(f, to, FileNode(f[from].data, TRUE))]
    ELSE [ok |-> FALSE, fs |-> f]

\* fs::create_dir(p)
FsCreateDir(f, p) ==
    IF p # Root /\ ~Exists(f, p) /\ IsDir(f, Parent(p)) /\ Len(p) <= MaxPathLen
    THEN [ok |-> TRUE, fs |-> Put(f, p, DirNode(TRUE))]
    ELSE [ok |-> FALSE, fs |-> f]

\* The orders in which fs::read_dir may yield entries: the file system
\* keeps the names in some order of its own.
NameOrders ==
    LET names == {N_k, N_x, N_y}
    IN  {o \in [1 .. Cardinality(names) -> names] : \A i, j \in DOMAIN o : o[i] = o[j] => i = j}

\* fs::read_dir(d) under the order `order` of the names; a name of which
\* the order says nothing comes first.
ReadDirIn(f, d, order) ==
    LET C == Children(f, d)
        at(q) == IF \E i \in DOMAIN order : order[i] = FileName(q)
                 THEN CHOOSE i \in DOMAIN order : order[i] = FileName(q)
                 ELSE 0
    IN  CHOOSE o \in [1 .. Cardinality(C) -> C] :
            \A i, j \in DOMAIN o : i < j => (o[i] # o[j] /\ at(o[i]) <= at(o[j]))

\* copy_dir_recursive(src, dst) as the call number `depth` of the recursion;
\* CopyEntries is its loop over read_dir(src).  The stack of the thread has
\* room for MaxStack calls: the next one overflows it, and the process
\* aborts (died) with what was copied so far left in place.
RECURSIVE CopyDirRecursive(_, _, _, _, _)
RECURSIVE CopyEntries(_, _, _, _, _)
CopyEntries(f, entries, dst, depth, order) ==
    IF entries = <<>> THEN [ok |-> TRUE, died |-> FALSE, fs |-> f]
    ELSE LET entry_path == Head(entries)
             dest_path == Append(dst, FileName(entry_path))
             done == IF IsDir(f, entry_path)
                     THEN CopyDirRecursive(f, entry_path, dest_path, depth + 1, order)
                     ELSE Returned(FsCopy(f, entry_path, dest_path))
         IN  IF done.ok THEN CopyEntries(done.fs, Tail(entries), dst, depth, order) ELSE done

CopyDirRecursive(f, src, dst, depth, order) ==
    IF depth > MaxStack THEN [ok |-> FALSE, died |-> TRUE, fs |-> f]
    ELSE LET made == IF ~Exists(f, dst) THEN FsCreateDir(f, dst) ELSE [ok |-> TRUE, fs |-> f]
         IN  IF ~made.ok THEN Returned(made)
             ELSE IF ~(IsDir(made.fs, src) /\ made.fs[src].readable)
             THEN [ok |-> FALSE, died |-> FALSE, fs |-> made.fs]
             ELSE CopyEntries(made.fs, ReadDirIn(made.fs, src, order), dst, depth, order)

CopyEntry(src, dest_dir, order) ==
    /\ CanStart
    /\ pre' = fs
    /\ IF src = Root
       THEN Return(Call("copy", src), "InvalidSourceName") /\ UNCHANGED fs
       ELSE LET dest_path == Append(dest_dir, FileName(src))
                call == [Call("copy", src) EXCEPT !.dest = dest_path]
                done == IF IsDir(fs, src)
                        THEN CopyDirRecursive(fs, src, dest_path, 1, order)
                        ELSE Returned(FsCopy(fs, src, dest_path))
            IN  /\ fs' = done.fs
                /\ IF done.died
                   THEN /\ op' = call
                        /\ pc' = "dead"
                        /\ res' = "crashed"
                        /\ log' = Append(log, [op |-> call, res |-> "crashed"])
                        /\ UNCHANGED <<channels, app>>
                   ELSE Return(call, IF done.ok THEN "Ok" ELSE "Io")

PasteDir == <<N_e>>

\* What is in `e` before the paste.
PasteTrees ==
    {t \in UNION {[P -> {FileNode(Bytes1, TRUE), DirNode(TRUE)}] :
                    P \in SUBSET {<<N_k>>, <<N_x>>}} :
        <<N_x>> \in DOMAIN t => t[<<N_x>>] = FileNode(Bytes1, TRUE)}

\* What an earlier paste of d/k into itself left in d/k.
NestedTrees ==
    {<<>> :> DirNode(TRUE),
     (<<>> :> DirNode(TRUE)) @@ (<<N_k>> :> DirNode(TRUE))
                             @@ (<<N_k, N_x>> :> FileNode(Bytes1, TRUE))}

InitCopy ==
    /\ \E t \in EntryTrees, u \in PasteTrees, w \in NestedTrees :
          LET planted == Plant(Plant((Root :> DirNode(TRUE)), WorkDir, t), PasteDir, u)
          IN  fs = IF IsDir(planted, WorkDir \o <<N_k>>)
                   THEN planted @@ [q \in {WorkDir \o <<N_k>> \o r : r \in DOMAIN w \ {<<>>}} |->
                                      w[SubSeq(q, Len(WorkDir) + 2, Len(q))]]
                   ELSE planted
    /\ NothingRun
    /\ NothingSent
    /\ NothingShown

NextCopy ==
    \E src \in Under(fs, WorkDir), dest_dir \in {WorkDir, WorkDir \o <<N_k>>, PasteDir},
       order \in NameOrders :
        CopyEntry(src, dest_dir, order)

SpecCopy == InitCopy /\ [][NextCopy]_vars

\* C12: a copy_entry that returns Ok leaves at dest_dir/<name of src> the
\* content of the file src, or for a directory src a directory with the
\* same relative paths, kinds and file contents.
C12_CopyReproducesSource ==
    (/\ pc = "idle" /\ op.kind = "copy" /\ res = "Ok") =>
        IF IsFile(pre, op.path)
        THEN HasFile(fs, op.dest, pre[op.path].data)
        ELSE /\ IsDir(fs, op.dest)
             /\ RelTree(fs, op.dest) = RelTree(pre, op.path)

----------------------------------------------------------------------------
(* read_directory: the listing of the directory `d`.                       *)

Uppers == <<"A", "B", "C", "D", "E", "F", "G", "H", "I", "J", "K", "L", "M",
            "N", "O", "P", "Q", "R", "S", "T", "U", "V", "W", "X", "Y", "Z">>
Lowers == <<"a", "b", "c", "d", "e", "f", "g", "h", "i", "j", "k", "l", "m",
            "n", "o", "p", "q", "r", "s", "t", "u", "v", "w", "x", "y", "z">>

IndexIn(seq, ch) == IF \E i \in DOMAIN seq : seq[i] = ch
                    THEN CHOOSE i \in DOMAIN seq : seq[i] = ch ELSE 0

\* The byte of a character (ASCII).
ByteOf ==
    [ch \in STRING |->
        IF IndexIn(Uppers, ch) > 0 THEN 64 + IndexIn(Uppers, ch)
        ELSE IF IndexIn(Lowers, ch) > 0 THEN 96 + IndexIn(Lowers, ch)
        ELSE IF ch = Dot THEN 46
        ELSE 47]

Byte(ch) == ByteOf[ch]

\* str::to_lowercase that leaves every character as it is.
KeepCase(str) == str

\* char::to_lowercase
LowerOf ==
    [ch \in STRING |-> IF IndexIn(Uppers, ch) > 0 THEN Lowers[IndexIn(Uppers, ch)] ELSE ch]

\* str::to_lowercase
ToLowercase(str) == [i \in DOMAIN str |-> LowerOf[str[i]]]

\* Ord::cmp of two strings: by the first byte that differs, a prefix first.
StrCmp(a, b) ==
    LET differ == {i \in DOMAIN a \cap DOMAIN b : a[i] # b[i]}
    IN  IF differ = {}
        THEN IF Len(a) < Len(b) THEN "Less"
             ELSE IF Len(a) > Len(b) THEN "Greater"
             ELSE "Equal"
        ELSE IF \E i \in differ : /\ \A e \in differ : i <= e
                                  /\ Byte(a[i]) < Byte(b[i])
             THEN "Less"
             ELSE "Greater"

\* DirEntry::file_name: the last name of the path, or the whole path for
\* the root, which has none.
EntryName(p) == IF p = Root THEN <<Slash>> ELSE FileName(p)

FileEntry(f, p) ==
    [name |-> EntryName(p), path |-> p,
     file_type |-> IF IsDir(f, p) THEN "Directory"
                   ELSE IF f[p].kind = "symlink" THEN "Symlink" ELSE "File",
     size |-> IF IsFile(f, p) THEN FileLen(f[p].data) ELSE 0,
     modified |-> f[p].modified]

\* The comparison by the lower-cased names alone.
ListingCmpByName(a, b) == StrCmp(ToLowercase(a.name), ToLowercase(b.name))

\* The comparison read_directory sorts by: directories first, then the
\* lower-cased names.
ListingCmp(a, b) ==
    IF a.file_type = "Directory" /\ b.file_type # "Directory" THEN "Less"
    ELSE IF a.file_type # "Directory" /\ b.file_type = "Directory" THEN "Greater"
    ELSE StrCmp(ToLowercase(a.name), ToLowercase(b.name))

\* entries.sort_by(..), a stable sort: an entry stands behind the entries
\* that are less and behind the equal ones that stood before it.  The
\* sorted entries are a sequence of their own (SubSeq), as the Vec is.
SortListing(seq) ==
    LET before(j, i) == \E a \in {seq[j]}, b \in {seq[i]} :
                            \/ ListingCmp(a, b) = "Less"
                            \/ (ListingCmp(b, a) # "Less" /\ j < i)
        rank(i) == Cardinality({j \in DOMAIN seq : before(j, i)}) + 1
    IN  SubSeq([k \in DOMAIN seq |-> seq[CHOOSE i \in DOMAIN seq : rank(i) = k]], 1, Len(seq))

\* The orders in which fs::read_dir may yield the children of a directory.
ReadDirOrders(f, d) ==
    LET C == Children(f, d)
    IN  {o \in [1 .. Cardinality(C) -> C] : \A i, j \in DOMAIN o : o[i] = o[j] => i = j}

\* The loop that ends at the first child whose metadata() fails.
ReadDirEntriesUntilFailure(f, order, failing) ==
    LET first == IF \E i \in DOMAIN order : order[i] \in failing
                 THEN CHOOSE i \in DOMAIN order :
                          order[i] \in failing /\ \A j \in 1 .. i - 1 : order[j] \notin failing
                 ELSE Len(order) + 1
        kept == SubSeq(order, 1, first - 1)
    IN  SortListing([i \in DOMAIN kept |-> FileEntry(f, kept[i])])

\* The loop of read_directory over read_dir(path) and its sort: `order` is
\* the order in which the children are yielded, `failing` the children for
\* which entry.metadata() fails (`Err(_) => continue`).
ReadDirEntries(f, order, failing) ==
    LET statted(q) == q \notin failing
        kept == SelectSeq(order, statted)
    IN  SortListing([i \in DOMAIN kept |-> FileEntry(f, kept[i])])

\* fs::read_dir(path) opens the directory.
CanOpenDir(f, path) == IsDir(f, path) /\ f[path].readable

ReadDirectory(path, order, failing) ==
    /\ CanStart
    /\ pre' = fs
    /\ UNCHANGED fs
    /\ IF CanOpenDir(fs, path)
       THEN /\ order \in ReadDirOrders(fs, path)
            /\ failing \subseteq Children(fs, path)
            /\ Return([Call("read_directory", path) EXCEPT
                          !.output = ReadDirEntries(fs, order, failing),
                          !.skipped = failing], "Ok")
       ELSE /\ order = <<>>
            /\ failing = {}
            /\ Return(Call("read_directory", path), "Io")

N_B == <<"B">>
N_b_low == <<"b">>
N_c_txt == <<"c", ".", "t", "x", "t">>
N_A_txt == <<"A", ".", "t", "x", "t">>

ListedNames == {{N_B, N_a, N_c_txt, N_A_txt}, {N_B, N_b_low, N_a}}

InitList ==
    /\ \E names \in ListedNames :
          \E t \in UNION {[{<<n>> : n \in P} ->
                             {FileNode(Bytes1, TRUE), DirNode(TRUE), DirNode(FALSE)}] :
                          P \in SUBSET names} :
             fs = Plant((Root :> DirNode(TRUE)), WorkDir, t)
    /\ NothingRun
    /\ NothingSent
    /\ NothingShown

NextList ==
    \E path \in DOMAIN fs :
        \E order \in ReadDirOrders(fs, path) \cup {<<>>} : ReadDirectory(path, order, {})

SpecList == InitList /\ [][NextList]_vars

\* The listings of a directory of at most three entries, the metadata of
\* some of which cannot be read.
InitStat ==
    /\ \E t \in UNION {[{<<n>> : n \in P} ->
                          {FileNode(Bytes1, TRUE), DirNode(TRUE), DirNode(FALSE)}] :
                       P \in SUBSET {N_B, N_b_low, N_a}} :
          fs = Plant((Root :> DirNode(TRUE)), WorkDir, t)
    /\ NothingRun
    /\ NothingSent
    /\ NothingShown

NextStat ==
    \E path \in DOMAIN fs :
        \E order \in ReadDirOrders(fs, path) \cup {<<>>}, failing \in SUBSET Children(fs, path) :
            ReadDirectory(path, order, failing)

SpecStat == InitStat /\ [][NextStat]_vars

IsListing == pc = "idle" /\ op.kind = "read_directory" /\ res = "Ok"

\* C13: in what read_directory returns, every directory stands before every
\* entry that is none, and within each of the two groups the lower-cased
\* names ascend.
C13_ListingSorted ==
    IsListing =>
        \A i, j \in DOMAIN op.output :
            i < j =>
                LET a == op.output[i]
                    b == op.output[j]
                IN  /\ ~(a.file_type # "Directory" /\ b.file_type = "Directory")
                    /\ (a.file_type = "Directory") = (b.file_type = "Directory") =>
                          StrCmp(ToLowercase(a.name), ToLowercase(b.name)) # "Greater"

\* C13 (witness): a listing of two directories and two files.
C13_Witness ==
    /\ IsListing
    /\ Len(op.output) = 4
    /\ op.output[2].file_type = "Directory"
    /\ op.output[3].file_type = "File"

\* The directory of the example: the subdirectories B and a, the files
\* c.txt and A.txt.
ExampleListed ==
    /\ IsListing
    /\ op.skipped = {}
    /\ {q[Len(q)] : q \in Children(pre, op.path)} = {N_B, N_a, N_c_txt, N_A_txt}
    /\ IsDir(pre, Append(op.path, N_B)) /\ IsDir(pre, Append(op.path, N_a))
    /\ IsFile(pre, Append(op.path, N_c_txt)) /\ IsFile(pre, Append(op.path, N_A_txt))

ListedNamesInOrder == [i \in DOMAIN op.output |-> op.output[i].name]

\* C14 (as stated): for that directory read_directory returns the names in
\* the order B, a, A.txt, c.txt.
C14_ExampleOrderAsStated ==
    ExampleListed => ListedNamesInOrder = <<N_B, N_a, N_A_txt, N_c_txt>>

\* C14 (amended): for that directory read_directory returns the names in
\* the order a, B, A.txt, c.txt: directories first, and `a` before `B`
\* because the lower-cased names are compared.
C14_ExampleOrder ==
    ExampleListed => ListedNamesInOrder = <<N_a, N_B, N_A_txt, N_c_txt>>

\* C14 (witness): read_directory has returned the listing of the directory
\* of the example.
C14_Witness == ExampleListed /\ Len(op.output) = 4 /\ op.output[1].name = N_a

\* C22: read_directory returns Err exactly when the directory cannot be
\* opened; when it opens, the result is Ok and holds one entry for each
\* child whose metadata can be read and none for the others.
C22_ListingSkipsUnstattable ==
    (pc = "idle" /\ op.kind = "read_directory") =>
        /\ (res # "Ok") = ~CanOpenDir(pre, op.path)
        /\ res = "Ok" =>
              /\ {op.output[i].path : i \in DOMAIN op.output}
                    = Children(pre, op.path) \ op.skipped
              /\ Len(op.output) = Cardinality(Children(pre, op.path) \ op.skipped)

\* C22 (witness): a listing that has left out a child whose metadata could
\* not be read and holds two others.
C22_Witness ==
    /\ IsListing
    /\ Cardinality(op.skipped) = 1
    /\ Len(op.output) = 2

----------------------------------------------------------------------------
(* search_directory_recursive: the tree d/sub/deep with files whose names  *)
(* hold `match` in either case, or do not.                                 *)

\* str::contains
Contains(str, pat) ==
    \E i \in 0 .. Len(str) - Len(pat) : SubSeq(str, i + 1, i + Len(pat)) = pat

\* search_directory_recursive with the names compared as they are.
SearchCaseSensitive(f, root, query) ==
    LET hit(p) == Contains(EntryName(p), query)
        found == SelectSeq(WalkDir(f, root), hit)
    IN  [i \in DOMAIN found |-> FileEntry(f, found[i])]

SearchDirectoryRecursive(f, root, query) ==
    LET query_lower == ToLowercase(query)
        hit(p) == Contains(ToLowercase(EntryName(p)), query_lower)
        found == SelectSeq(WalkDir(f, root), hit)
    IN  [i \in DOMAIN found |-> FileEntry(f, found[i])]

Search(root, query) ==
    /\ CanStart
    /\ root # Root
    /\ pre' = fs
    /\ UNCHANGED fs
    /\ Return([Call("search", root) EXCEPT
                  !.name = query,
                  !.output = SearchDirectoryRecursive(fs, root, query)], "Ok")

N_sub == <<"s", "u", "b">>
N_deep == <<"d", "e", "e", "p">>
N_match_txt == <<"m", "a", "t", "c", "h", ".", "t", "x", "t">>
N_MATCH == <<"M", "A", "T", "C", "H">>

Queries == {<<"m", "a", "t", "c", "h">>, <<"M", "a", "t", "c", "h">>, <<"u", "b">>, <<>>}

\* The trees below d: sub, sub/deep, and files at the three levels.
SearchTrees ==
    LET dirs == {<<N_sub>>, <<N_sub, N_deep>>}
        files == {<<N_x>>, <<N_match_txt>>, <<N_sub, N_MATCH>>,
                  <<N_sub, N_deep, N_match_txt>>}
    IN  {t \in UNION {[P -> {FileNode(Bytes1, TRUE), DirNode(TRUE), DirNode(FALSE)}] :
                        P \in SUBSET (dirs \cup files)} :
            /\ \A q \in DOMAIN t : (t[q].kind = "dir") = (q \in dirs)
            /\ \A q \in DOMAIN t : Len(q) > 1 => SubSeq(q, 1, Len(q) - 1) \in DOMAIN t}

InitSearch ==
    /\ \E t \in SearchTrees : fs = Plant((Root :> DirNode(TRUE)), WorkDir, t)
    /\ NothingRun
    /\ NothingSent
    /\ NothingShown

NextSearch ==
    \E root \in {WorkDir, WorkDir \o <<N_sub>>, WorkDir \o <<N_k>>}, query \in Queries :
        Search(root, query)

SpecSearch == InitSearch /\ [][NextSearch]_vars

IsSearch == pc = "idle" /\ op.kind = "search"

FoundPaths == {op.output[i].path : i \in DOMAIN op.output}

NameMatches(p) == Contains(ToLowercase(FileName(p)), ToLowercase(op.name))

\* The entries at or below root that do not lie below a directory that
\* cannot be read.
Reachable(f, root) ==
    {p \in Under(f, root) :
        \A n \in Len(root) .. Len(p) - 1 : f[SubSeq(p, 1, n)].readable}

\* C15 (as stated): search_directory_recursive returns, once each, exactly
\* the entries at or below root whose name holds the query in any case.
C15_SearchExactAsStated ==
    IsSearch =>
        /\ FoundPaths = {p \in Under(pre, op.path) : NameMatches(p)}
        /\ Cardinality(FoundPaths) = Len(op.output)

\* C15 (amended): search_directory_recursive returns, once each, exactly
\* the entries at or below root, not below a directory that cannot be
\* read, whose name holds the query in any case.
C15_SearchExact ==
    IsSearch =>
        /\ FoundPaths = {p \in Reachable(pre, op.path) : NameMatches(p)}
        /\ Cardinality(FoundPaths) = Len(op.output)

\* C15 (witness): the search for `match` from d has returned
\* d/sub/deep/match.txt and d/sub/MATCH and has left out d/x.
C15_Witness ==
    /\ IsSearch
    /\ op.path = WorkDir
    /\ op.name = <<"m", "a", "t", "c", "h">>
    /\ WorkDir \o <<N_sub, N_deep, N_match_txt>> \in FoundPaths
    /\ WorkDir \o <<N_sub, N_MATCH>> \in FoundPaths
    /\ Exists(pre, WorkDir \o <<N_x>>)

----------------------------------------------------------------------------
(* The interactive thread, the worker thread and the search threads.  A    *)
(* request is numbered by its place in `issued`; a result carries the      *)
(* number of the request it answers.                                       *)

ListRequest(path) == [kind |-> "list", path |-> path, query |-> <<>>]
SearchRequest(root, query) == [kind |-> "search", path |-> root, query |-> query]

(* sort_entries *)

\* Ord::cmp of two integers.
IntCmp(x, y) == IF x < y THEN "Less" ELSE IF x > y THEN "Greater" ELSE "Equal"

\* Ordering::reverse
Reverse(ordering) ==
    IF ordering = "Less" THEN "Greater"
    ELSE IF ordering = "Greater" THEN "Less"
    ELSE "Equal"

\* The comparison of the first sort: by the column, in the order.
ColumnCmp(a, b, column, order) ==
    LET ordering == IF column = "Name"
                    THEN StrCmp(ToLowercase(a.name), ToLowercase(b.name))
                    ELSE IF column = "Size" THEN IntCmp(a.size, b.size)
                    ELSE IntCmp(a.modified, b.modified)
    IN  IF order = "Descending" THEN Reverse(ordering) ELSE ordering

\* The first entries.sort_by of sort_entries (a stable sort).
SortByColumn(seq, column, order) ==
    LET before(j, i) == \E a \in {seq[j]}, b \in {seq[i]} :
                            \/ ColumnCmp(a, b, column, order) = "Less"
                            \/ (ColumnCmp(b, a, column, order) # "Less" /\ j < i)
        rank(i) == Cardinality({j \in DOMAIN seq : before(j, i)}) + 1
    IN  SubSeq([k \in DOMAIN seq |-> seq[CHOOSE i \in DOMAIN seq : rank(i) = k]], 1, Len(seq))

\* The comparison of the second sort: directories on top, the rest equal.
DirsFirstCmp(a, b) ==
    IF a.file_type = "Directory" /\ b.file_type # "Directory" THEN "Less"
    ELSE IF a.file_type # "Directory" /\ b.file_type = "Directory" THEN "Greater"
    ELSE "Equal"

\* The second entries.sort_by of sort_entries (a stable sort).
SortDirsFirst(seq) ==
    LET before(j, i) == \E a \in {seq[j]}, b \in {seq[i]} :
                            \/ DirsFirstCmp(a, b) = "Less"
                            \/ (DirsFirstCmp(b, a) # "Less" /\ j < i)
        rank(i) == Cardinality({j \in DOMAIN seq : before(j, i)}) + 1
    IN  SubSeq([k \in DOMAIN seq |-> seq[CHOOSE i \in DOMAIN seq : rank(i) = k]], 1, Len(seq))

\* sort_entries without its second sort.
SortEntriesByColumn(seq, column, order) == SortByColumn(seq, column, order)

\* sort_entries: the two sorts, the second on the value the first has left
\* in self.entries.
SortEntries(seq, column, order) ==
    CHOOSE sorted \in {SortDirsFirst(by_column) :
                         by_column \in {SortByColumn(given, column, order) : given \in {seq}}} :
        TRUE

(* The handlers of the interactive thread. *)

\* The body of navigate_to(path, _): the window turns to path, drops the
\* selection, and sends path to the worker thread.
LoadDirectory(path) ==
    /\ Len(issued) < MaxRequests
    /\ current_path' = path
    /\ is_loading' = TRUE
    /\ selected_entry' = 0
    /\ chosen' = Root
    /\ issued' = Append(issued, ListRequest(path))
    /\ load_req' = Append(load_req, Len(issued) + 1)
    /\ UNCHANGED <<load_res, worker, tasks, received, app_entries, sort_column, sort_order>>

\* refresh()
Refresh == LoadDirectory(current_path)

\* navigate_to(path)
NavigateTo(path) ==
    /\ LoadDirectory(path)
    /\ UNCHANGED store

\* perform_search with recursive_search set: refresh() for the empty query,
\* else a thread of its own for the search.
PerformSearch(query) ==
    /\ IF query = <<>>
       THEN Refresh
       ELSE /\ Len(issued) < MaxRequests
            /\ is_loading' = TRUE
            /\ issued' = Append(issued, SearchRequest(current_path, query))
            /\ tasks' = tasks \cup {Len(issued) + 1}
            /\ UNCHANGED <<load_req, load_res, worker, received, current_path, app_entries,
                           selected_entry, sort_column, sort_order, chosen>>
    /\ UNCHANGED store

\* The worker thread: rx.recv()
WorkerRecv ==
    /\ worker = 0
    /\ load_req # <<>>
    /\ worker' = Head(load_req)
    /\ load_req' = Tail(load_req)
    /\ UNCHANGED <<load_res, tasks, issued, received, store, app>>

\* The worker thread that sends no result for a listing that failed.
WorkerSendOk ==
    /\ worker # 0
    /\ LET path == issued[worker].path
       IN  IF CanOpenDir(fs, path)
           THEN \E order \in ReadDirOrders(fs, path) :
                   load_res' = Append(load_res,
                                      [id |-> worker,
                                       result |-> [ok |-> TRUE,
                                                   entries |-> ReadDirEntries(fs, order, {})]])
           ELSE UNCHANGED load_res
    /\ worker' = 0
    /\ UNCHANGED <<load_req, tasks, issued, received, store, app>>

\* The worker thread: read_directory(&path) and res_tx.send(result)
WorkerSend ==
    /\ worker # 0
    /\ LET path == issued[worker].path
       IN  IF CanOpenDir(fs, path)
           THEN \E order \in ReadDirOrders(fs, path) :
                   load_res' = Append(load_res,
                                      [id |-> worker,
                                       result |-> [ok |-> TRUE,
                                                   entries |-> ReadDirEntries(fs, order, {})]])
           ELSE load_res' = Append(load_res,
                                   [id |-> worker,
                                    result |-> [ok |-> FALSE, entries |-> <<>>]])
    /\ worker' = 0
    /\ UNCHANGED <<load_req, tasks, issued, received, store, app>>

\* A search thread: search_directory_recursive(&root, &query) and
\* tx.send(Ok(results))
SearchSend(id) ==
    /\ id \in tasks
    /\ LET results == SearchDirectoryRecursive(fs, issued[id].path, issued[id].query)
       IN  load_res' = Append(load_res,
                              [id |-> id, result |-> [ok |-> TRUE, entries |-> results]])
    /\ tasks' = tasks \ {id}
    /\ UNCHANGED <<load_req, worker, issued, received, store, app>>

\* update: load_res_rx.try_recv() with a result waiting.  No file of the
\* model carries the hidden attribute, so that retain keeps every entry.
UpdateRecv ==
    /\ load_res # <<>>
    /\ received' = Append(received, Head(load_res))
    /\ load_res' = Tail(load_res)
    /\ is_loading' = FALSE
    /\ app_entries' = IF Head(load_res).result.ok
                      THEN SortEntries(Head(load_res).result.entries, sort_column, sort_order)
                      ELSE app_entries
    /\ UNCHANGED <<load_req, worker, tasks, issued, store,
                   current_path, selected_entry, sort_column, sort_order, chosen>>

\* ExplorerApp::new: the channels, the worker thread, the first request,
\* and the fields of the window.
NewApp ==
    /\ issued = <<ListRequest(WorkDir)>>
    /\ load_req = <<1>>
    /\ load_res = <<>>
    /\ worker = 0
    /\ tasks = {}
    /\ received = <<>>
    /\ current_path = WorkDir
    /\ app_entries = <<>>
    /\ selected_entry = 0
    /\ is_loading = TRUE
    /\ chosen = Root

\* The trees of the window: the files x and y, and the directory k absent,
\* empty, or with a file in it.
ChannelTrees == {t \in EntryTrees : {<<N_x>>, <<N_y>>} \subseteq DOMAIN t}

InitChannel ==
    /\ \E t \in ChannelTrees : fs = Plant((Root :> DirNode(TRUE)), WorkDir, t)
    /\ NothingRun
    /\ NewApp
    /\ sort_column = "Name"
    /\ sort_order = "Ascending"

NextChannel ==
    \/ \E path \in {WorkDir, WorkDir \o <<N_k>>, Root} : NavigateTo(path)
    \/ \E query \in {<<>>, N_x} : PerformSearch(query)
    \/ WorkerRecv
    \/ WorkerSend
    \/ \E id \in tasks : SearchSend(id)
    \/ UpdateRecv

SpecChannel == InitChannel /\ [][NextChannel]_vars

\* The worker thread runs whenever it can, and update keeps being called.
SpecChannelFair ==
    SpecChannel /\ WF_vars(WorkerRecv) /\ WF_vars(WorkerSend) /\ WF_vars(UpdateRecv)

\* C16: update receives the results in the order in which their requests
\* were issued.
C16_ResultsInRequestOrder ==
    \A i, j \in DOMAIN received : i < j => received[i].id < received[j].id

\* The results of the listings alone are received in the order of their
\* requests.
ListingsInRequestOrder ==
    \A i, j \in DOMAIN received :
        (i < j /\ issued[received[i].id].kind = "list"
               /\ issued[received[j].id].kind = "list") =>
            received[i].id < received[j].id

\* The results for request n that were sent: those waiting in the channel
\* and those update has received.
ResultsFor(n) ==
    Cardinality({i \in DOMAIN load_res : load_res[i].id = n})
        + Cardinality({i \in DOMAIN received : received[i].id = n})

\* The listing requested by request n has been received by update.
Answered(n) == \E i \in DOMAIN received : received[i].id = n

\* C24: for every path sent by navigate_to the worker thread sends one
\* result, never a second one, and update receives it in the end, with
\* several requests waiting and after listings that failed as well: again
\* and again every listing requested so far has been received.
C24_EveryListingAnswered ==
    /\ [](\A n \in DOMAIN issued : ResultsFor(n) <= 1)
    /\ []<>(\A n \in DOMAIN issued : issued[n].kind = "list" => Answered(n))

\* C24 (witness): the results of two listings wait in the channel at once,
\* the first of them the error of a listing that failed.
C24_Witness ==
    /\ Len(load_res) >= 2
    /\ issued[load_res[1].id].kind = "list" /\ ~load_res[1].result.ok
    /\ issued[load_res[2].id].kind = "list" /\ load_res[2].result.ok

\* The entries shown are those of a result that answers a request made for
\* the directory of the window.
ShowsResultFor(path) ==
    \E i \in DOMAIN received :
        /\ issued[received[i].id].path = path
        /\ received[i].result.ok
        /\ app_entries = SortEntries(received[i].result.entries, sort_column, sort_order)

\* C27: with every request answered and every result received by update,
\* the entries shown are a result computed for current_path, its listing or
\* a search rooted at it.
C27_EntriesOfCurrentPath ==
    (\A n \in DOMAIN issued : Answered(n)) => ShowsResultFor(current_path)

\* A request is outstanding from its issue until update has received its
\* result.
Outstanding(n) == n \in DOMAIN issued /\ ~Answered(n)

\* C30: is_loading is true in every state in which some listing or search
\* has been requested and update has not yet received its result.
C30_LoadingWhileOutstanding ==
    (\E n \in DOMAIN issued : Outstanding(n)) => is_loading

----------------------------------------------------------------------------
(* The window: the table of entries, its header, the selection, and the    *)
(* operations on the selected entry.                                       *)

Columns == {"Name", "Size", "Modified"}
Orders == {"Ascending", "Descending"}

\* A click on the header of a column, drawn once nothing is loading: the
\* same column turns its order around, another column starts ascending,
\* and sort_entries sorts what is shown.
ClickHeader(column) ==
    /\ ~is_loading
    /\ sort_order' = IF sort_column = column /\ sort_order = "Ascending"
                     THEN "Descending" ELSE "Ascending"
    /\ sort_column' = column
    /\ app_entries' = SortEntries(app_entries, sort_column', sort_order')
    /\ UNCHANGED <<current_path, selected_entry, is_loading, chosen, channels, store>>

\* A click on row idx of the table: select_entry(Some(idx)).  `chosen`
\* records the path of the entry the user picked.
SelectEntry(idx) ==
    /\ ~is_loading
    /\ idx \in DOMAIN app_entries
    /\ selected_entry' = idx
    /\ chosen' = app_entries[idx].path
    /\ UNCHANGED <<current_path, app_entries, is_loading, sort_column, sort_order,
                   channels, store>>

\* The keys Home and End, which update handles whether or not a listing is
\* loading, as long as there are entries.
PressKey(key) ==
    /\ app_entries # <<>>
    /\ selected_entry' = IF key = "Home" THEN 1 ELSE Len(app_entries)
    /\ chosen' = app_entries[selected_entry'].path
    /\ UNCHANGED <<current_path, app_entries, is_loading, sort_column, sort_order,
                   channels, store>>

\* delete_selected: delete_entry on the path of entries[selected_entry],
\* then select_entry(None) and refresh() if it returned Ok.
DeleteSelected ==
    /\ selected_entry \in DOMAIN app_entries
    /\ RemoveEntry(app_entries[selected_entry].path)
    /\ IF res' = "Ok"
       THEN Refresh
       ELSE UNCHANGED <<channels, app>>

\* The directory of the window: the directory k and the files x and y, of
\* different sizes and times, so that the three columns order them apart.
AppTrees ==
    {(<<N_k>> :> [DirNode(TRUE) EXCEPT !.modified = 3])
        @@ (<<N_x>> :> [FileNode(Plain(<<1, 2>>), TRUE) EXCEPT !.modified = 1])
        @@ (<<N_y>> :> [FileNode(Plain(<<1>>), TRUE) EXCEPT !.modified = 2])}

\* The window opens with the sort column and order of the saved config.
InitApp ==
    /\ \E t \in AppTrees : fs = Plant((Root :> DirNode(TRUE)), WorkDir, t)
    /\ NothingRun
    /\ NewApp
    /\ sort_column \in Columns
    /\ sort_order \in Orders

NextApp ==
    \/ \E path \in {WorkDir, WorkDir \o <<N_k>>} : NavigateTo(path)
    \/ WorkerRecv
    \/ WorkerSend
    \/ UpdateRecv
    \/ \E column \in Columns : ClickHeader(column)
    \/ \E idx \in DOMAIN app_entries : SelectEntry(idx)
    \/ \E key \in {"Home", "End"} : PressKey(key)
    \/ DeleteSelected

SpecApp == InitApp /\ [][NextApp]_vars

\* Entry a stands in the group of the directories or in the group of the
\* rest together with entry b.
SameGroup(a, b) == (a.file_type = "Directory") <=> (b.file_type = "Directory")

\* C21: whatever column and order are selected, the entries shown have
\* every directory before every other entry, and inside each of the two
\* groups no entry stands before one that the column orders ahead of it.
C21_DirsFirstThenColumn ==
    \A i, j \in DOMAIN app_entries :
        i < j =>
            /\ ~(app_entries[i].file_type # "Directory"
                    /\ app_entries[j].file_type = "Directory")
            /\ SameGroup(app_entries[i], app_entries[j]) =>
                   ColumnCmp(app_entries[i], app_entries[j], sort_column, sort_order)
                       # "Greater"

\* C21 (witness): after a click on a header the directory k and the two
\* files are shown by size, the largest first.
C21_Witness ==
    /\ sort_column = "Size" /\ sort_order = "Descending"
    /\ ~is_loading
    /\ Len(app_entries) = 3
    /\ app_entries[1].file_type = "Directory"
    /\ app_entries[2].size > app_entries[3].size

\* C26: delete_selected deletes the entry the user selected, also after
\* update has replaced the entries and after a click on a header has
\* reordered them.
C26_ActsOnSelected ==
    [][(log' # log /\ op'.kind = "delete") => op'.path = chosen]_vars

----------------------------------------------------------------------------
(* Further properties of copy_entry.                                       *)

\* C28: copy_entry returns, Ok or Err, whatever the source and the
\* destination are, the source itself and a directory inside it included.
C28_CopyReturns ==
    op.kind = "copy" => (pc = "idle" /\ res \in {"Ok", "Io", "InvalidSourceName"})

\* C29: when copy_entry has returned, the source is what it was: every
\* entry at or below it is there, of the same kind, and every file among
\* them has the content it had.
C29_SourceUnchanged ==
    (/\ pc = "idle" /\ op.kind = "copy") =>
        \A p \in Under(pre, op.path) :
            /\ Exists(fs, p)
            /\ fs[p].kind = pre[p].kind
            /\ fs[p].data = pre[p].data

----------------------------------------------------------------------------
(* search_directory_recursive, entry by entry: the iterator of WalkDir     *)
(* yields one entry at a step and keeps the entries still to come.  The    *)
(* tree has symbolic links that close a cycle and a directory that cannot  *)
(* be read.                                                                *)

\* search_directory_recursive(root, query) up to the loop.
SearchBegin(root, query) ==
    /\ CanStart
    /\ pre' = fs
    /\ op' = [Call("search", root) EXCEPT
                 !.name = query,
                 !.output = <<>>,
                 !.stack = IF Exists(fs, root) THEN <<root>> ELSE <<>>]
    /\ pc' = "walk"
    /\ UNCHANGED <<fs, res, log, channels, app>>

\* One turn of the loop for a walk that goes through symbolic links
\* (follow_links(true)) wherever the path is short enough to go on.
SearchStepFollowingLinks(order) ==
    /\ pc = "walk"
    /\ op.stack # <<>>
    /\ LET p == Head(op.stack)
           at == IF Exists(fs, p) THEN p
                 ELSE fs[Parent(p)].data.target \o <<FileName(p)>>
           dir == IF fs[at].kind = "symlink" THEN fs[at].data.target ELSE at
           descends == CanOpenDir(fs, dir) /\ Len(p) < MaxPathLen
           hit == Contains(ToLowercase(EntryName(p)), ToLowercase(op.name))
       IN  /\ IF descends THEN order \in ReadDirOrders(fs, dir) ELSE order = <<>>
           /\ op' = [op EXCEPT
                        !.stack = [i \in DOMAIN order |-> Append(p, FileName(order[i]))]
                                    \o Tail(op.stack),
                        !.visited = op.visited \cup {p},
                        !.i = op.i + 1,
                        !.output = IF hit THEN Append(op.output, FileEntry(fs, at))
                                   ELSE op.output]
    /\ UNCHANGED <<fs, pc, res, pre, log, channels, app>>

\* One turn of the loop: the iterator yields the next entry p, and goes
\* into p when p is a directory (a symbolic link is none) that it can
\* read; the error for one that it cannot read is dropped by the filter.
SearchStep(order) ==
    /\ pc = "walk"
    /\ op.stack # <<>>
    /\ LET p == Head(op.stack)
           descends == CanOpenDir(fs, p)
           hit == Contains(ToLowercase(EntryName(p)), ToLowercase(op.name))
       IN  /\ IF descends THEN order \in ReadDirOrders(fs, p) ELSE order = <<>>
           /\ op' = [op EXCEPT
                        !.stack = order \o Tail(op.stack),
                        !.visited = op.visited \cup {p},
                        !.i = op.i + 1,
                        !.output = IF hit THEN Append(op.output, FileEntry(fs, p))
                                   ELSE op.output]
    /\ UNCHANGED <<fs, pc, res, pre, log, channels, app>>

\* The iterator is exhausted: search_directory_recursive returns results.
SearchReturn ==
    /\ pc = "walk"
    /\ op.stack = <<>>
    /\ Return(op, "Ok")
    /\ UNCHANGED <<fs, pre>>

N_loop == <<"l", "o", "o", "p">>

\* The trees below d: sub with the link sub/loop back to d, and some of
\* the link d/loop to sub, the directory sub/deep, which may be unreadable,
\* and files.
WalkTrees ==
    LET dirs == {<<N_sub>>, <<N_sub, N_deep>>}
        links == {<<N_sub, N_loop>>, <<N_loop>>}
        files == {<<N_sub, N_MATCH>>, <<N_sub, N_deep, N_match_txt>>}
    IN  {t \in UNION {[P -> {FileNode(Bytes1, TRUE), DirNode(TRUE), DirNode(FALSE),
                              SymlinkNode(WorkDir), SymlinkNode(WorkDir \o <<N_sub>>)}] :
                        P \in SUBSET (dirs \cup links \cup files)} :
            /\ \A q \in DOMAIN t : (t[q].kind = "dir") = (q \in dirs)
            /\ \A q \in DOMAIN t : (t[q].kind = "symlink") = (q \in links)
            /\ <<N_sub>> \in DOMAIN t /\ <<N_sub, N_loop>> \in DOMAIN t
            /\ t[<<N_sub>>].readable
            /\ t[<<N_sub, N_loop>>] = SymlinkNode(WorkDir)
            /\ <<N_loop>> \in DOMAIN t => t[<<N_loop>>] = SymlinkNode(WorkDir \o <<N_sub>>)
            /\ \A q \in DOMAIN t : Len(q) > 1 => SubSeq(q, 1, Len(q) - 1) \in DOMAIN t}

InitWalk ==
    /\ \E t \in WalkTrees : fs = Plant((Root :> DirNode(TRUE)), WorkDir, t)
    /\ NothingRun
    /\ NothingSent
    /\ NothingShown

WalkOrders == UNION {ReadDirOrders(fs, d) : d \in DOMAIN fs} \cup {<<>>}

SearchNext == \E order \in WalkOrders : SearchStep(order)

NextWalk ==
    \/ \E root \in {WorkDir, WorkDir \o <<N_sub>>, WorkDir \o <<N_k>>} :
          SearchBegin(root, <<"m", "a", "t", "c", "h">>)
    \/ SearchNext
    \/ SearchReturn

SpecWalk == InitWalk /\ [][NextWalk]_vars

\* The loop is a loop of one thread that nothing holds up.
SpecWalkFair == SpecWalk /\ WF_vars(SearchNext) /\ WF_vars(SearchReturn)

\* No entry that the walk has yielded lies below a symbolic link.
NotThroughLinks ==
    \A p \in op.visited :
        \A n \in 1 .. Len(p) - 1 :
            LET q == SubSeq(p, 1, n)
            IN  Exists(pre, q) /\ pre[q].kind # "symlink"

\* A walk that has ended has yielded every entry that is not below a
\* directory that cannot be read, and nothing else.
VisitedAllReadable ==
    (pc = "idle" /\ op.kind = "search") => op.visited = Reachable(pre, op.path)

\* The walk yields an entry at most once.
StepsBounded ==
    op.kind = "search" =>
        /\ op.i = Cardinality(op.visited)
        /\ op.i <= Cardinality(Under(pre, op.path))

====
